---------------------------- MODULE Spec2Model ----------------------------
(* A model of security_monkey/watcher.py: the Watcher's rate-limit        *)
(* backoff (wrap_aws_rate_limited_call), its exception map                *)
(* (slurp_exception, locationInExceptionMap) and its three-way diff       *)
(* (find_deleted, find_new, find_modified, find_changes) over ChangeItem. *)
EXTENDS Integers, Sequences, FiniteSets, TLC

VARIABLES
    \* ---- Watcher.wrap_aws_rate_limited_call ----
    rate_limit_delay,   \* self.rate_limit_delay
    pc,                 \* "idle" | "calling" | "returned" | "raised"
    attempts,           \* the local counter of the running call
    awsfunc,            \* the operation the running call wraps
    outcome,            \* what the call returned or raised
    waits,              \* history: the time.sleep before each attempt (0 = none)
    startDelay,         \* history: self.rate_limit_delay when the call began
    attemptDelay,       \* history: self.rate_limit_delay just before the last attempt
    response,           \* history: what awsfunc did on the last attempt
    calls,              \* history: calls begun on this Watcher
    \* ---- the exception map and the diff ----
    exception_map,      \* the dict slurp_exception fills: partial location -> exception
    honor_ephemerals,   \* self.honor_ephemerals
    ephemeral_paths,    \* self.ephemeral_paths
    previous,           \* the items read_previous_items returns
    current,            \* the items slurp returned
    created_items,      \* self.created_items
    deleted_items,      \* self.deleted_items
    changed_items,      \* self.changed_items
    ephemeral_items,    \* self.ephemeral_items
    phase,              \* "init" | "slurped" | "found" | "saved"
    history,            \* history: the find_* methods run so far, in order
    query,              \* history: the locationInExceptionMap call made on this map, and its answer
    \* ---- save, ChangeItem.from_items, issues_found ----
    stored,             \* the datastore.store calls made, in order
    made,               \* history: the last ChangeItem.from_items call and its result
    issue_flags,        \* history: the last issues_found call's result
    first_found,        \* history: the buckets as the first find_* method left them
    slurped_items       \* history: previous and current as the find_* methods were given them

invVars == <<rate_limit_delay, pc, attempts, awsfunc, outcome, waits,
             startDelay, attemptDelay, response, calls>>

excVars == <<exception_map, query>>

cfgVars == <<honor_ephemerals, ephemeral_paths>>

snapVars == <<previous, current>>

bucketVars == <<created_items, deleted_items, changed_items, ephemeral_items>>

callVars == <<stored, made, issue_flags>>

memoVars == <<first_found, slurped_items>>

vars == <<invVars, excVars, cfgVars, snapVars, bucketVars, phase, history,
          callVars, memoVars>>

-----------------------------------------------------------------------------
(* Bounds.                                                                 *)

\* An operation throttles at most this many times before its final outcome
\* (or throttles forever).
MaxThrottles == 5
\* Calls made on one Watcher.
MaxCalls == 3
\* Entries of the exception map when locationInExceptionMap is asked.
MaxRecorded == 2
\* Entries of the exception map of a slurp that is followed by a diff.
MaxExceptions == 1
\* Times find_changes runs on one Watcher.
MaxRuns == 2
\* Records in the created and the changed bucket together when
\* issues_found runs.
MaxRecords == 2

\* The attempts counter and the waits history saturate here; a call of an
\* operation that stops throttling never gets this far.
MaxAttempts == MaxThrottles + 2

Forever == 0 - 1

Min(a, b) == IF a < b THEN a ELSE b

-----------------------------------------------------------------------------
(* Watcher.wrap_aws_rate_limited_call                                      *)

NoValue == [kind |-> "none"]

Returned(v) == [kind |-> "return", value |-> v]
Raised(type, code) == [kind |-> "raise", type |-> type, code |-> code]

Results == {"res1", "res2"}
ErrorCodes == {"Throttling", "AccessDenied"}
ThrottleTypes == {"BotoServerError", "ClientError"}

\* What an operation can end with once it stops throttling: a result, a
\* boto/botocore error with another code, or an exception of another type.
FinalOutcomes ==
    {Returned(v) : v \in Results}
      \cup {Raised(t, "AccessDenied") : t \in ThrottleTypes}
      \cup {Raised("ValueError", "none")}

\* An operation: it raises Throttling (as a boto or a botocore error) on its
\* first `throttles` invocations, or forever, and then ends with `final`.
Operations ==
    [throttles : (0..MaxThrottles) \cup {Forever},
     type : ThrottleTypes,
     final : FinalOutcomes]

\* awsfunc(*args, **nargs), invoked for the n-th time in this call.
Invoke(op, n) ==
    IF op.throttles = Forever \/ n <= op.throttles
    THEN Raised(op.type, "Throttling")
    ELSE op.final

increase_delay_uncapped(d) ==
    IF d = 0 THEN 1 ELSE d * 2

increase_delay_doubleatcap(d) ==
    IF d = 0 THEN 1
    ELSE IF d <= 4 THEN d * 2
    ELSE d

increase_delay(d) ==
    IF d = 0 THEN 1
    ELSE IF d < 4 THEN d * 2
    ELSE d

\* The two except clauses: the error is swallowed (and the loop goes on) iff
\* it is a BotoServerError or a ClientError whose code is Throttling.
IsThrottling(r) ==
    /\ r.kind = "raise"
    /\ r.type \in {"BotoServerError", "ClientError"}
    /\ r.code = "Throttling"

\* One pass of the try block after the sleep, for response r of awsfunc and
\* delay d: the new delay, where the call stands, and its outcome.
AfterAttempt_keepdelay(d, r) ==
    IF r.kind = "return"
    THEN [delay |-> d, pc |-> "returned", outcome |-> r]
    ELSE IF IsThrottling(r)
    THEN [delay |-> increase_delay(d), pc |-> "calling", outcome |-> NoValue]
    ELSE [delay |-> d, pc |-> "raised", outcome |-> r]

AfterAttempt_penalise(d, r) ==
    IF r.kind = "return"
    THEN [delay |-> 0, pc |-> "returned", outcome |-> r]
    ELSE IF IsThrottling(r)
    THEN [delay |-> increase_delay(d), pc |-> "calling", outcome |-> NoValue]
    ELSE [delay |-> increase_delay(d), pc |-> "raised", outcome |-> r]

AfterAttempt_botoonly(d, r) ==
    IF r.kind = "return"
    THEN [delay |-> 0, pc |-> "returned", outcome |-> r]
    ELSE IF IsThrottling(r) /\ r.type = "BotoServerError"
    THEN [delay |-> increase_delay(d), pc |-> "calling", outcome |-> NoValue]
    ELSE [delay |-> d, pc |-> "raised", outcome |-> r]

AfterAttempt(d, r) ==
    IF r.kind = "return"
    THEN [delay |-> 0, pc |-> "returned", outcome |-> r]
    ELSE IF IsThrottling(r)
    THEN [delay |-> increase_delay(d), pc |-> "calling", outcome |-> NoValue]
    ELSE [delay |-> d, pc |-> "raised", outcome |-> r]

-----------------------------------------------------------------------------
(* Locations and the exception map.                                        *)

Indexes == {"t1", "t2"}
Accounts == {"a1", "a2"}
Regions == {"r1", "r2"}
Names == {"n1", "n2"}

\* (index, account, region, name)
FullLocations == Indexes \X Accounts \X Regions \X Names

\* item_location[0:n]
Prefix(item_location, n) == SubSeq(item_location, 1, n)

\* The keys slurp_exception is given: a location, or one without its name,
\* without its region and name, or with its technology only.
PartialLocations == {Prefix(l, n) : l \in FullLocations, n \in 1..4}

Exceptions == {"exc1", "exc2"}

EmptyMap == [l \in {} |-> "exc1"]

\* exception_map[location] = exception (an entry already there is overwritten)
slurp_exception_result(location, exception, map) ==
    [l \in (DOMAIN map) \cup {location} |->
        IF l = location THEN exception ELSE map[l]]

locationInExceptionMap_noindex(item_location, map) ==
    \/ item_location \in DOMAIN map
    \/ Prefix(item_location, 3) \in DOMAIN map
    \/ Prefix(item_location, 2) \in DOMAIN map

locationInExceptionMap(item_location, map) ==
    IF item_location \in DOMAIN map THEN TRUE
    ELSE IF Prefix(item_location, 3) \in DOMAIN map THEN TRUE
    ELSE IF Prefix(item_location, 2) \in DOMAIN map THEN TRUE
    ELSE IF Prefix(item_location, 1) \in DOMAIN map THEN TRUE
    ELSE FALSE

NoQuery == [asked |-> FALSE]

-----------------------------------------------------------------------------
(* Configs, their canonical form and ChangeItem.                           *)

\* A config is a dict; the model's configs have these top-level keys.
Keys == {"k", "e", "v"}
Values == {1, 2}

EmptyConfig == [key \in {} |-> 1]

\* What the datastore holds for an item, and what slurp may return for it.
StoredConfig == [key \in Keys |-> 1]
SlurpedConfigs == [Keys -> Values]

\* The fields the canonical form leaves out of every comparison.
VolatileKeys == {"v"}

\* common.utils.sub_dict: the canonical form of a config.
sub_dict(config) ==
    [key \in (DOMAIN config) \ VolatileKeys |-> config[key]]

\* dpath.util.delete(cfg, path, separator='$') inside try/except PathNotFound:
\* the path is removed when it is there, and nothing happens when it is not.
dpath_delete(cfg, path) ==
    IF path \in DOMAIN cfg
    THEN [key \in (DOMAIN cfg) \ {path} |-> cfg[key]]
    ELSE cfg

None == [kind |-> "None"]

\* ChangeItem.__init__ (audit_issues or [] is the list given, or the empty one)
ChangeItem(index, region, account, name, old_config, new_config, active, audit_issues) ==
    [index |-> index, region |-> region, account |-> account, name |-> name,
     old_config |-> old_config, new_config |-> new_config,
     active |-> active, audit_issues |-> audit_issues,
     confirmed_new_issues |-> << >>, confirmed_fixed_issues |-> << >>,
     confirmed_existing_issues |-> << >>, found_new_issue |-> FALSE]

\* ChangeItem.config
config(item) == item.new_config

\* ChangeItem.location
location(item) == <<item.index, item.account, item.region, item.name>>

from_items_oldfirst(old_item, new_item) ==
    IF old_item = None /\ new_item = None
    THEN None
    ELSE LET valid_item == IF old_item # None THEN old_item ELSE new_item
         IN ChangeItem(valid_item.index, valid_item.region, valid_item.account,
                       valid_item.name,
                       IF old_item # None THEN config(old_item) ELSE EmptyConfig,
                       IF new_item # None THEN config(new_item) ELSE EmptyConfig,
                       new_item # None,
                       valid_item.audit_issues)

\* ChangeItem.from_items
from_items(old_item, new_item) ==
    IF old_item = None /\ new_item = None
    THEN None
    ELSE LET valid_item == IF new_item # None THEN new_item ELSE old_item
         IN ChangeItem(valid_item.index, valid_item.region, valid_item.account,
                       valid_item.name,
                       IF old_item # None THEN config(old_item) ELSE EmptyConfig,
                       IF new_item # None THEN config(new_item) ELSE EmptyConfig,
                       new_item # None,
                       valid_item.audit_issues)

\* The item read_previous_items builds from a stored revision, and the item
\* a slurp builds: index, region, account, name and new_config only.
Item(l, cfg) == ChangeItem(l[1], l[3], l[2], l[4], EmptyConfig, cfg, FALSE, << >>)

\* The locations of the items of a list, and {item.location(): item ...}.
Locations(items) == {location(item) : item \in items}
ItemAt(items, l) == CHOOSE item \in items : location(item) = l

\* The locations of the records of a bucket.
BucketLocations(bucket) == {location(bucket[i]) : i \in DOMAIN bucket}

\* list(set(...)): the elements of a set, each once, in some order.
Orders(S) ==
    {order \in [1..Cardinality(S) -> S] :
        \A i, j \in 1..Cardinality(S) : i # j => order[i] # order[j]}

-----------------------------------------------------------------------------
(* find_deleted, find_new, find_modified, find_changes.                    *)
(* A diff state d holds the four buckets and the two lists of items.       *)

DiffState(cr, de, ch, ep, prev, curr) ==
    [created |-> cr, deleted |-> de, changed |-> ch, ephemeral |-> ep,
     previous |-> prev, current |-> curr]

\* find_deleted: set(prev_map).difference(set(curr_map)), less the locations
\* the exception map covers.
deleted_locations_unfiltered(prev, curr, map) ==
    Locations(prev) \ Locations(curr)

deleted_locations_exactonly(prev, curr, map) ==
    {l \in Locations(prev) \ Locations(curr) : l \notin DOMAIN map}

deleted_locations(prev, curr, map) ==
    {l \in Locations(prev) \ Locations(curr) : ~locationInExceptionMap(l, map)}

\* find_new: set(curr_map).difference(set(prev_map)); no exception map.
new_locations_all(prev, curr) ==
    Locations(curr)

new_locations(prev, curr) ==
    Locations(curr) \ Locations(prev)

\* find_modified: set(curr_map).intersection(set(prev_map)), less the
\* locations the exception map covers.
modified_locations_unfiltered(prev, curr, map) ==
    Locations(curr) \cap Locations(prev)

modified_locations(prev, curr, map) ==
    {l \in Locations(curr) \cap Locations(prev) : ~locationInExceptionMap(l, map)}

\* for path in self.ephemeral_paths: delete path from cfg
RECURSIVE delete_paths(_, _)
delete_paths(cfg, paths) ==
    IF paths = << >> THEN cfg
    ELSE delete_paths(dpath_delete(cfg, Head(paths)), Tail(paths))

\* deepcopy(item) with the ephemeral paths deleted from the copy's config.
filtered_copy(item, paths) ==
    [item EXCEPT !.new_config = delete_paths(item.new_config, paths)]

\* The body of the loop of find_modified for one location: the two change
\* items, what goes to which bucket, and the two input items afterwards.
compare_items_allchanged(prev_item, curr_item, honor, paths) ==
    LET eph == IF sub_dict(config(prev_item)) # sub_dict(config(curr_item))
               THEN from_items(prev_item, curr_item) ELSE None
    IN [eph_change_item |-> eph, dur_change_item |-> None,
        to_ephemeral |-> IF honor /\ eph # None THEN <<eph>> ELSE << >>,
        to_changed |-> IF eph # None THEN <<eph>> ELSE << >>,
        prev_item |-> prev_item, curr_item |-> curr_item]

compare_items_rawdurable(prev_item, curr_item, honor, paths) ==
    LET eph == IF sub_dict(config(prev_item)) # sub_dict(config(curr_item))
               THEN from_items(prev_item, curr_item) ELSE None
        dur_prev_item == filtered_copy(prev_item, paths)
        dur_curr_item == filtered_copy(curr_item, paths)
        dur == IF config(dur_prev_item) # config(dur_curr_item)
               THEN from_items(dur_prev_item, dur_curr_item) ELSE None
    IN IF honor
       THEN [eph_change_item |-> eph, dur_change_item |-> dur,
             to_ephemeral |-> IF eph # None THEN <<eph>> ELSE << >>,
             to_changed |-> IF dur # None THEN <<dur>> ELSE << >>,
             prev_item |-> prev_item, curr_item |-> curr_item]
       ELSE [eph_change_item |-> eph, dur_change_item |-> None,
             to_ephemeral |-> << >>,
             to_changed |-> IF eph # None THEN <<eph>> ELSE << >>,
             prev_item |-> prev_item, curr_item |-> curr_item]

compare_items_alwaysfilter(prev_item, curr_item, honor, paths) ==
    LET eph == IF sub_dict(config(prev_item)) # sub_dict(config(curr_item))
               THEN from_items(prev_item, curr_item) ELSE None
        dur_prev_item == filtered_copy(prev_item, paths)
        dur_curr_item == filtered_copy(curr_item, paths)
        dur == IF sub_dict(config(dur_prev_item)) # sub_dict(config(dur_curr_item))
               THEN from_items(dur_prev_item, dur_curr_item) ELSE None
    IN IF honor
       THEN [eph_change_item |-> eph, dur_change_item |-> dur,
             to_ephemeral |-> IF eph # None THEN <<eph>> ELSE << >>,
             to_changed |-> IF dur # None THEN <<dur>> ELSE << >>,
             prev_item |-> prev_item, curr_item |-> curr_item]
       ELSE [eph_change_item |-> eph, dur_change_item |-> None,
             to_ephemeral |-> << >>,
             to_changed |-> IF dur # None THEN <<dur>> ELSE << >>,
             prev_item |-> prev_item, curr_item |-> curr_item]

compare_items_nocopy(prev_item, curr_item, honor, paths) ==
    LET eph == IF sub_dict(config(prev_item)) # sub_dict(config(curr_item))
               THEN from_items(prev_item, curr_item) ELSE None
        dur_prev_item == filtered_copy(prev_item, paths)
        dur_curr_item == filtered_copy(curr_item, paths)
        dur == IF sub_dict(config(dur_prev_item)) # sub_dict(config(dur_curr_item))
               THEN from_items(dur_prev_item, dur_curr_item) ELSE None
    IN IF honor
       THEN [eph_change_item |-> eph, dur_change_item |-> dur,
             to_ephemeral |-> IF eph # None THEN <<eph>> ELSE << >>,
             to_changed |-> IF dur # None THEN <<dur>> ELSE << >>,
             prev_item |-> dur_prev_item, curr_item |-> dur_curr_item]
       ELSE [eph_change_item |-> eph, dur_change_item |-> None,
             to_ephemeral |-> << >>,
             to_changed |-> IF eph # None THEN <<eph>> ELSE << >>,
             prev_item |-> prev_item, curr_item |-> curr_item]

compare_items_exclusive(prev_item, curr_item, honor, paths) ==
    LET eph == IF sub_dict(config(prev_item)) # sub_dict(config(curr_item))
               THEN from_items(prev_item, curr_item) ELSE None
        dur_prev_item == filtered_copy(prev_item, paths)
        dur_curr_item == filtered_copy(curr_item, paths)
        dur == IF sub_dict(config(dur_prev_item)) # sub_dict(config(dur_curr_item))
               THEN from_items(dur_prev_item, dur_curr_item) ELSE None
    IN IF honor
       THEN [eph_change_item |-> eph, dur_change_item |-> dur,
             to_ephemeral |-> IF eph # None /\ dur = None THEN <<eph>> ELSE << >>,
             to_changed |-> IF dur # None THEN <<dur>> ELSE << >>,
             prev_item |-> prev_item, curr_item |-> curr_item]
       ELSE [eph_change_item |-> eph, dur_change_item |-> None,
             to_ephemeral |-> << >>,
             to_changed |-> IF eph # None THEN <<eph>> ELSE << >>,
             prev_item |-> prev_item, curr_item |-> curr_item]

compare_items(prev_item, curr_item, honor, paths) ==
    LET eph == IF sub_dict(config(prev_item)) # sub_dict(config(curr_item))
               THEN from_items(prev_item, curr_item) ELSE None
        dur_prev_item == filtered_copy(prev_item, paths)
        dur_curr_item == filtered_copy(curr_item, paths)
        dur == IF sub_dict(config(dur_prev_item)) # sub_dict(config(dur_curr_item))
               THEN from_items(dur_prev_item, dur_curr_item) ELSE None
    IN IF honor
       THEN [eph_change_item |-> eph, dur_change_item |-> dur,
             to_ephemeral |-> IF eph # None THEN <<eph>> ELSE << >>,
             to_changed |-> IF dur # None THEN <<dur>> ELSE << >>,
             prev_item |-> prev_item, curr_item |-> curr_item]
       ELSE [eph_change_item |-> eph, dur_change_item |-> None,
             to_ephemeral |-> << >>,
             to_changed |-> IF eph # None THEN <<eph>> ELSE << >>,
             prev_item |-> prev_item, curr_item |-> curr_item]

\* items with the item at the location of new_item replaced by new_item
Replace(items, new_item) ==
    {item \in items : location(item) # location(new_item)} \cup {new_item}

\* find_deleted, its list(set(...)) coming out in the given order
find_deleted(d, order) ==
    [d EXCEPT !.deleted =
        d.deleted \o [i \in 1..Len(order) |->
                         from_items(ItemAt(d.previous, order[i]), None)]]

\* find_new, its list(set(...)) coming out in the given order
find_new(d, order) ==
    [d EXCEPT !.created =
        d.created \o [i \in 1..Len(order) |->
                         from_items(None, ItemAt(d.current, order[i]))]]

\* find_modified, its list(set(...)) coming out in the given order
RECURSIVE find_modified(_, _, _, _)
find_modified(d, order, honor, paths) ==
    IF order = << >> THEN d
    ELSE LET c == compare_items(ItemAt(d.previous, Head(order)),
                                ItemAt(d.current, Head(order)), honor, paths)
         IN find_modified(
                [d EXCEPT !.ephemeral = d.ephemeral \o c.to_ephemeral,
                          !.changed = d.changed \o c.to_changed,
                          !.previous = Replace(d.previous, c.prev_item),
                          !.current = Replace(d.current, c.curr_item)],
                Tail(order), honor, paths)

-----------------------------------------------------------------------------
(* Watcher.save and ChangeItem.save.                                       *)

\* ChangeItem.save: datastore.store(index, region, account, name, active,
\* new_config, new_issues=audit_issues)
store_call(item) ==
    [index |-> item.index, region |-> item.region, account |-> item.account,
     name |-> item.name, active |-> item.active, config |-> item.new_config,
     new_issues |-> item.audit_issues]

\* item.save(self.datastore) for each item of a list, in order
store_calls(items) == [i \in 1..Len(items) |-> store_call(items[i])]

\* Watcher.save: the created and the deleted items, then the ephemeral
\* items when ephemerals are skipped and the changed items otherwise.
save_nodeleted(d, honor) ==
    store_calls(d.created)
        \o store_calls(IF honor THEN d.ephemeral ELSE d.changed)

save(d, honor) ==
    store_calls(d.created \o d.deleted)
        \o store_calls(IF honor THEN d.ephemeral ELSE d.changed)

-----------------------------------------------------------------------------
(* Watcher.issues_found.                                                   *)

\* for issue in item.confirmed_existing_issues: if not issue.justified: ...
RECURSIVE any_unjustified(_)
any_unjustified(issues) ==
    IF issues = << >> THEN FALSE
    ELSE IF ~Head(issues).justified THEN TRUE
    ELSE any_unjustified(Tail(issues))

NoFlags ==
    [has_issues |-> FALSE, has_new_issue |-> FALSE, has_unjustified_issue |-> FALSE]

\* The loop over self.created_items + self.changed_items, from the flags
\* so far; the first item with audit issues and a new issue ends it.
RECURSIVE issues_scan_breakboth(_, _)
issues_scan_breakboth(items, flags) ==
    IF items = << >> THEN flags
    ELSE IF Head(items).audit_issues = << >>
    THEN issues_scan_breakboth(Tail(items), flags)
    ELSE IF Head(items).found_new_issue
    THEN [has_issues |-> TRUE, has_new_issue |-> TRUE, has_unjustified_issue |-> TRUE]
    ELSE IF any_unjustified(Head(items).confirmed_existing_issues)
    THEN [has_issues |-> TRUE, has_new_issue |-> flags.has_new_issue,
          has_unjustified_issue |-> TRUE]
    ELSE issues_scan_breakboth(Tail(items), [flags EXCEPT !.has_issues = TRUE])

RECURSIVE issues_scan_newonly(_, _)
issues_scan_newonly(items, flags) ==
    IF items = << >> THEN flags
    ELSE IF Head(items).audit_issues = << >>
    THEN issues_scan_newonly(Tail(items), flags)
    ELSE IF Head(items).found_new_issue
    THEN [has_issues |-> TRUE, has_new_issue |-> TRUE,
          has_unjustified_issue |-> flags.has_unjustified_issue]
    ELSE issues_scan_newonly(Tail(items),
            [has_issues |-> TRUE,
             has_new_issue |-> flags.has_new_issue,
             has_unjustified_issue |->
                 flags.has_unjustified_issue
                     \/ any_unjustified(Head(items).confirmed_existing_issues)])

RECURSIVE issues_scan(_, _)
issues_scan(items, flags) ==
    IF items = << >> THEN flags
    ELSE IF Head(items).audit_issues = << >>
    THEN issues_scan(Tail(items), flags)
    ELSE IF Head(items).found_new_issue
    THEN [has_issues |-> TRUE, has_new_issue |-> TRUE, has_unjustified_issue |-> TRUE]
    ELSE issues_scan(Tail(items),
            [has_issues |-> TRUE,
             has_new_issue |-> flags.has_new_issue,
             has_unjustified_issue |->
                 flags.has_unjustified_issue
                     \/ any_unjustified(Head(items).confirmed_existing_issues)])

\* Watcher.issues_found
issues_found(created, changed) == issues_scan(created \o changed, NoFlags)

\* No call of the method has been made.
NoCall == [called |-> FALSE]

\* The four buckets as __init__ leaves them.
NoBuckets ==
    [created |-> << >>, deleted |-> << >>, changed |-> << >>, ephemeral |-> << >>]

\* The Watcher as __init__ leaves it.
Init ==
    /\ rate_limit_delay = 0
    /\ pc = "idle"
    /\ attempts = 0
    /\ awsfunc = [throttles |-> 0, type |-> "ClientError", final |-> Returned("res1")]
    /\ outcome = NoValue
    /\ waits = << >>
    /\ startDelay = 0
    /\ attemptDelay = 0
    /\ response = NoValue
    /\ calls = 0
    /\ exception_map = EmptyMap
    /\ query = NoQuery
    /\ honor_ephemerals = FALSE
    /\ ephemeral_paths = << >>
    /\ previous = {}
    /\ current = {}
    /\ created_items = << >>
    /\ deleted_items = << >>
    /\ changed_items = << >>
    /\ ephemeral_items = << >>
    /\ phase = "init"
    /\ history = << >>
    /\ stored = << >>
    /\ made = NoCall
    /\ issue_flags = NoCall
    /\ first_found = NoBuckets
    /\ slurped_items = [previous |-> {}, current |-> {}]

\* A caller enters wrap_aws_rate_limited_call(op): attempts = 0, and
\* self.rate_limit_delay is whatever the last call left.
Call(op) ==
    /\ pc \in {"idle", "returned", "raised"}
    /\ calls < MaxCalls
    /\ pc' = "calling"
    /\ attempts' = 0
    /\ awsfunc' = op
    /\ outcome' = NoValue
    /\ waits' = << >>
    /\ startDelay' = rate_limit_delay
    /\ attemptDelay' = rate_limit_delay
    /\ response' = NoValue
    /\ calls' = calls + 1
    /\ UNCHANGED rate_limit_delay
    /\ UNCHANGED <<excVars, cfgVars, snapVars, bucketVars, phase, history>>
    /\ UNCHANGED <<callVars, memoVars>>

\* One pass of the while True loop: count the attempt, sleep for the delay
\* if there is one, invoke the operation, and return, retry or raise.
Attempt ==
    /\ pc = "calling"
    /\ LET n == attempts + 1
           r == Invoke(awsfunc, n)
           a == AfterAttempt(rate_limit_delay, r)
       IN /\ attempts' = Min(n, MaxAttempts)
          /\ waits' = IF Len(waits) < MaxAttempts
                      THEN Append(waits, rate_limit_delay)
                      ELSE waits
          /\ attemptDelay' = rate_limit_delay
          /\ response' = r
          /\ rate_limit_delay' = a.delay
          /\ pc' = a.pc
          /\ outcome' = a.outcome
    /\ UNCHANGED <<awsfunc, startDelay, calls>>
    /\ UNCHANGED <<excVars, cfgVars, snapVars, bucketVars, phase, history>>
    /\ UNCHANGED <<callVars, memoVars>>

NextInvoker ==
    \/ \E op \in Operations : Call(op)
    \/ Attempt

SpecInvoker == Init /\ [][NextInvoker]_vars

\* The loop of a running call keeps running: the process is not stopped
\* between two passes.
FairSpecInvoker == SpecInvoker /\ WF_vars(Attempt)

-----------------------------------------------------------------------------
(* The exception map on its own: slurp_exception fills it and              *)
(* locationInExceptionMap is asked about full locations.                   *)

\* slurp_exception(location, exception, exception_map)
slurp_exception(loc, exception) ==
    /\ phase = "init"
    /\ exception_map' = slurp_exception_result(loc, exception, exception_map)
    /\ query' = NoQuery
    /\ UNCHANGED <<invVars, cfgVars, snapVars, bucketVars, phase, history>>
    /\ UNCHANGED <<callVars, memoVars>>

\* locationInExceptionMap(item_location, exception_map)
AskLocationInExceptionMap(item_location) ==
    /\ phase = "init"
    /\ query' = [asked |-> TRUE, location |-> item_location,
                 answer |-> locationInExceptionMap(item_location, exception_map)]
    /\ UNCHANGED <<invVars, exception_map, cfgVars, snapVars, bucketVars, phase, history>>
    /\ UNCHANGED <<callVars, memoVars>>

HasRoom(loc, max) ==
    loc \in DOMAIN exception_map \/ Cardinality(DOMAIN exception_map) < max

NextExceptionMap ==
    \/ \E l \in PartialLocations, e \in Exceptions :
          HasRoom(l, MaxRecorded) /\ slurp_exception(l, e)
    \/ \E l \in FullLocations : AskLocationInExceptionMap(l)

SpecExceptionMap == Init /\ [][NextExceptionMap]_vars

-----------------------------------------------------------------------------
(* The diff: a Watcher is configured, slurps (exceptions go to the         *)
(* exception map), reads the previous items and runs the find_* methods.   *)

\* The locations the two lists of items are drawn from: two regions of one
\* account.
SnapshotLocations == {<<"t1", "a1", "r1", "n1">>, <<"t1", "a1", "r2", "n1">>}

\* The keys a slurp of these locations records exceptions under: an
\* account that covers both locations, a region that covers one, a full
\* location, and an account that covers neither.
SlurpExceptionKeys ==
    {<<"t1", "a1">>, <<"t1", "a1", "r1">>, <<"t1", "a1", "r2", "n1">>, <<"t1", "a2">>}

\* The values self.ephemeral_paths takes; "x" is a path no config has.
EphemeralPathLists == {<< >>, <<"e">>, <<"v">>, <<"x", "e">>}

PreviousItemLists ==
    {{Item(l, StoredConfig) : l \in L} : L \in SUBSET SnapshotLocations}

CurrentItemLists ==
    UNION {{{Item(l, f[l]) : l \in L} : f \in [L -> SlurpedConfigs]} :
              L \in SUBSET SnapshotLocations}

\* A subclass sets self.honor_ephemerals and self.ephemeral_paths.
Configure(honor, paths) ==
    /\ phase = "init"
    /\ honor_ephemerals' = honor
    /\ ephemeral_paths' = paths
    /\ UNCHANGED <<invVars, excVars, snapVars, bucketVars, phase, history>>
    /\ UNCHANGED <<callVars, memoVars>>

\* The slurp is over (current) and read_previous_items has run (previous).
Slurped(prev, curr) ==
    /\ phase = "init"
    /\ previous' = prev
    /\ current' = curr
    /\ phase' = "slurped"
    /\ slurped_items' = [previous |-> prev, current |-> curr]
    /\ UNCHANGED <<invVars, excVars, cfgVars, bucketVars, history>>
    /\ UNCHANGED <<callVars, first_found>>

\* The four buckets of a diff state.
Buckets(d) ==
    [created |-> d.created, deleted |-> d.deleted,
     changed |-> d.changed, ephemeral |-> d.ephemeral]

Now == DiffState(created_items, deleted_items, changed_items, ephemeral_items,
                 previous, current)

Becomes(d, method) ==
    /\ created_items' = d.created
    /\ deleted_items' = d.deleted
    /\ changed_items' = d.changed
    /\ ephemeral_items' = d.ephemeral
    /\ previous' = d.previous
    /\ current' = d.current
    /\ phase' = "found"
    /\ history' = Append(history, method)
    /\ first_found' = IF history = << >> THEN Buckets(d) ELSE first_found
    /\ UNCHANGED <<invVars, excVars, cfgVars>>
    /\ UNCHANGED <<callVars, slurped_items>>

\* find_deleted(previous, current, exception_map) on a Watcher that has
\* found nothing yet
FindDeleted ==
    /\ phase = "slurped"
    /\ \E order \in Orders(deleted_locations(previous, current, exception_map)) :
          Becomes(find_deleted(Now, order), "find_deleted")

\* find_new(previous, current) on a Watcher that has found nothing yet
FindNew ==
    /\ phase = "slurped"
    /\ \E order \in Orders(new_locations(previous, current)) :
          Becomes(find_new(Now, order), "find_new")

\* find_modified(previous, current, exception_map) on a Watcher that has
\* found nothing yet
FindModified ==
    /\ phase = "slurped"
    /\ \E order \in Orders(modified_locations(previous, current, exception_map)) :
          Becomes(find_modified(Now, order, honor_ephemerals, ephemeral_paths),
                  "find_modified")

\* find_changes(current, exception_map): find_deleted, find_new and
\* find_modified in turn, on whatever the buckets hold.
FindChanges ==
    /\ phase \in {"slurped", "found"}
    /\ Len(history) < MaxRuns
    /\ \A i \in 1..Len(history) : history[i] = "find_changes"
    /\ \E o1 \in Orders(deleted_locations(previous, current, exception_map)),
          o2 \in Orders(new_locations(previous, current)),
          o3 \in Orders(modified_locations(previous, current, exception_map)) :
          Becomes(find_modified(find_new(find_deleted(Now, o1), o2), o3,
                                honor_ephemerals, ephemeral_paths),
                  "find_changes")

\* save() after find_changes
Save ==
    /\ phase = "found"
    /\ Head(history) = "find_changes"
    /\ stored' = stored \o save(Now, honor_ephemerals)
    /\ phase' = "saved"
    /\ UNCHANGED <<invVars, excVars, cfgVars, snapVars, bucketVars, history>>
    /\ UNCHANGED <<made, issue_flags, memoVars>>

\* The arguments ChangeItem.from_items is called with: no item, or an item
\* with or without audit issues.
FromItemsArguments ==
    {None} \cup
    {[Item(l, cfg) EXCEPT !.audit_issues = a] :
        l \in SnapshotLocations, cfg \in {StoredConfig, [StoredConfig EXCEPT !["k"] = 2]},
        a \in {<< >>, <<"issue1">>}}

\* ChangeItem.from_items(old_item, new_item), called on its own
FromItems(old_item, new_item) ==
    /\ phase = "init"
    /\ made' = [called |-> TRUE, old_item |-> old_item, new_item |-> new_item,
                result |-> from_items(old_item, new_item)]
    /\ phase' = "made"
    /\ UNCHANGED <<invVars, excVars, cfgVars, snapVars, bucketVars, history>>
    /\ UNCHANGED <<stored, issue_flags, memoVars>>

Next ==
    \/ \E honor \in BOOLEAN, paths \in EphemeralPathLists : Configure(honor, paths)
    \/ \E old_item \in FromItemsArguments, new_item \in FromItemsArguments :
          FromItems(old_item, new_item)
    \/ \E l \in SlurpExceptionKeys :
          HasRoom(l, MaxExceptions) /\ slurp_exception(l, "exc1")
    \/ \E prev \in PreviousItemLists, curr \in CurrentItemLists : Slurped(prev, curr)
    \/ FindDeleted
    \/ FindNew
    \/ FindModified
    \/ FindChanges
    \/ Save

Spec == Init /\ [][Next]_vars

-----------------------------------------------------------------------------
(* Issue aggregation: an audit has filled in the issue fields of the       *)
(* records of the created and the changed bucket, and issues_found runs.   *)

Justified == [justified |-> TRUE]
Unjustified == [justified |-> FALSE]

\* The values an audit leaves in a record's audit_issues and
\* confirmed_existing_issues.
AuditIssueLists == {<< >>, <<"issue1">>}
ExistingIssueLists == {<< >>, <<Justified>>, <<Unjustified>>, <<Justified, Unjustified>>}

\* A record of a new item, as an audit may leave it.
AuditedRecords ==
    {[from_items(None, Item(<<"t1", "a1", "r1", "n1">>, StoredConfig))
        EXCEPT !.audit_issues = a, !.found_new_issue = f,
               !.confirmed_existing_issues = e] :
        a \in AuditIssueLists, f \in BOOLEAN, e \in ExistingIssueLists}

\* The lists of at most n audited records.
AuditedLists(n) == UNION {[1..m -> AuditedRecords] : m \in 0..n}

\* The buckets after find_changes and an audit of their records.
Audited(created, changed) ==
    /\ phase = "init"
    /\ created_items' = created
    /\ changed_items' = changed
    /\ phase' = "audited"
    /\ UNCHANGED <<invVars, excVars, cfgVars, snapVars, deleted_items, ephemeral_items>>
    /\ UNCHANGED <<history, callVars, memoVars>>

\* has_issues, has_new_issue, has_unjustified_issue = self.issues_found()
IssuesFound ==
    /\ phase = "audited"
    /\ issue_flags' = [called |-> TRUE,
                       flags |-> issues_found(created_items, changed_items)]
    /\ UNCHANGED <<invVars, excVars, cfgVars, snapVars, bucketVars, phase, history>>
    /\ UNCHANGED <<stored, made, memoVars>>

NextIssues ==
    \/ \E created \in AuditedLists(MaxRecords) :
          \E changed \in AuditedLists(MaxRecords - Len(created)) :
              Audited(created, changed)
    \/ IssuesFound

SpecIssues == Init /\ [][NextIssues]_vars

-----------------------------------------------------------------------------
(* Claims about wrap_aws_rate_limited_call.                                *)

\* The wait the backoff schedule 0, 1, 2, 4, 4, 4, ... puts before attempt i.
ExpectedWait(i) ==
    IF i = 1 THEN 0
    ELSE IF i = 2 THEN 1
    ELSE IF i = 3 THEN 2
    ELSE 4

\* C1: in a call that began with delay 0 (a fresh Watcher), every attempt
\* so far but the last was throttled, and the waits before the 1st, 2nd,
\* 3rd, 4th, 5th, ... attempts are exactly 0, 1, 2, 4, 4, ...
C1_BackoffSchedule ==
    startDelay = 0 =>
        \A i \in 1..Len(waits) : waits[i] = ExpectedWait(i)

\* A fresh Watcher whose operation throttles forever has made six attempts.
C1_Witness ==
    /\ calls = 1
    /\ startDelay = 0
    /\ awsfunc.throttles = Forever
    /\ Len(waits) >= 6
    /\ IsThrottling(response)

\* C2: whenever the operation succeeds the call returns, the value returned
\* is the operation's result and the delay is 0 at return.
C2_SuccessResetsDelay ==
    /\ response.kind = "return" =>
          /\ pc = "returned"
          /\ outcome = response
          /\ rate_limit_delay = 0
    /\ pc = "returned" =>
          /\ response.kind = "return"
          /\ outcome = awsfunc.final

\* A later call on the same Watcher succeeds on an attempt made with delay 4.
C2_Witness ==
    /\ pc = "returned"
    /\ calls >= 2
    /\ attemptDelay = 4
    /\ rate_limit_delay = 0

\* C3: when the operation raises an error that is not a throttling error,
\* the call raises that error on that attempt (no further attempt is made),
\* and the delay is what it was just before that attempt.
C3_OtherErrorPropagates ==
    /\ (response.kind = "raise" /\ ~IsThrottling(response)) =>
          /\ pc = "raised"
          /\ outcome = response
          /\ attempts = awsfunc.throttles + 1
          /\ rate_limit_delay = attemptDelay
    /\ pc = "raised" => outcome = awsfunc.final

\* A call raised after throttling had pushed the delay up, and that delay
\* was carried into the next call, which raised on its first attempt.
C3_Witness ==
    /\ pc = "raised"
    /\ calls >= 2
    /\ attempts = 1
    /\ startDelay = 4
    /\ rate_limit_delay = 4

Done == pc \in {"returned", "raised"}

\* C4: a throttling error is never the outcome of a call: a throttled
\* attempt leaves the call running, and a call whose operation stops
\* throttling ends with the operation's first outcome that is not a
\* throttling error, after exactly that many attempts.
C4_ThrottlingNeverSurfaces ==
    /\ [](IsThrottling(response) => pc = "calling")
    /\ [](Done => (~IsThrottling(outcome) /\ outcome = awsfunc.final /\ outcome = response))
    /\ \A op \in Operations :
          (pc = "calling" /\ awsfunc = op /\ op.throttles # Forever)
              ~> (Done /\ outcome = op.final /\ attempts = op.throttles + 1)

\* A call ended after the operation had throttled MaxThrottles times.
C4_Witness ==
    /\ Done
    /\ awsfunc.throttles = MaxThrottles
    /\ attempts = MaxThrottles + 1
    /\ outcome = awsfunc.final

-----------------------------------------------------------------------------
(* Claims about the exception map.                                         *)

\* Key k is location l or a partial location above it: l cut to its first
\* 1, 2, 3 or 4 elements.
Covers(k, l) ==
    /\ Len(k) \in 1..4
    /\ \A i \in 1..Len(k) : k[i] = l[i]

\* A location is suppressed when some key of the exception map covers it.
Suppressed(l) == \E k \in DOMAIN exception_map : Covers(k, l)

\* C5: locationInExceptionMap answers true for a full location iff the map
\* holds the location or its 3-, 2- or 1-element prefix; an entry that
\* differs from the location in an element it names never suppresses it.
C5_SuppressedIffPrefixRecorded ==
    query.asked =>
        /\ query.answer = (\E n \in 1..4 : Prefix(query.location, n) \in DOMAIN exception_map)
        /\ query.answer = Suppressed(query.location)

\* A location is suppressed by a technology-level entry alone, next to an
\* entry for another account of that technology.
C5_Witness ==
    /\ query.asked
    /\ query.answer
    /\ Cardinality(DOMAIN exception_map) = 2
    /\ \A k \in DOMAIN exception_map : Covers(k, query.location) => Len(k) = 1
    /\ \E k \in DOMAIN exception_map :
          Len(k) = 2 /\ k[1] = query.location[1] /\ k[2] # query.location[2]

-----------------------------------------------------------------------------
(* Claims about the diff.                                                  *)

Range(seq) == {seq[i] : i \in DOMAIN seq}

Common == Locations(previous) \cap Locations(current)

\* C6: after find_deleted on empty buckets the locations of the deleted
\* bucket are exactly those of previous that are not in current and are
\* not suppressed.
C6_DeletedLessSuppressed ==
    history \in {<<"find_deleted">>, <<"find_changes">>} =>
        BucketLocations(deleted_items) =
            {l \in Locations(previous) \ Locations(current) : ~Suppressed(l)}

\* Two locations went away; the one under a region-level exception is not
\* in the deleted bucket, the other one is.
C6_Witness ==
    /\ history = <<"find_deleted">>
    /\ Locations(current) = {}
    /\ Cardinality(Locations(previous)) = 2
    /\ Len(deleted_items) = 1
    /\ \E l \in Locations(previous) :
          /\ Suppressed(l)
          /\ l \notin DOMAIN exception_map
          /\ l \notin BucketLocations(deleted_items)

\* C7: after find_changes on empty buckets the locations of the created
\* bucket are exactly those of current that are not in previous, whatever
\* the exception map holds.
C7_CreatedNeverSuppressed ==
    history \in {<<"find_new">>, <<"find_changes">>} =>
        BucketLocations(created_items) = Locations(current) \ Locations(previous)

\* A new location under an exception entry is in the created bucket.
C7_Witness ==
    /\ history = <<"find_changes">>
    /\ Common # {}
    /\ \E l \in BucketLocations(created_items) : Suppressed(l)

\* C8: a suppressed location that is in previous and in current is never in
\* the changed bucket nor in the ephemeral bucket.
C8_SuppressedNeverModified ==
    \A l \in Common :
        Suppressed(l) =>
            /\ l \notin BucketLocations(changed_items)
            /\ l \notin BucketLocations(ephemeral_items)

\* Both locations changed at a durable key and ephemerals are honored; the
\* suppressed one is in no bucket, the other one is in both.
C8_Witness ==
    /\ history = <<"find_changes">>
    /\ honor_ephemerals
    /\ Cardinality(Common) = 2
    /\ \A l \in Common :
          ItemAt(previous, l).new_config["k"] # ItemAt(current, l).new_config["k"]
    /\ \E l \in Common : Suppressed(l)
    /\ Len(changed_items) = 1
    /\ Len(ephemeral_items) = 1

\* The keys at which two configs differ.
DiffKeys(c1, c2) ==
    {key \in (DOMAIN c1) \cup (DOMAIN c2) :
        \/ key \notin DOMAIN c1
        \/ key \notin DOMAIN c2
        \/ c1[key] # c2[key]}

\* The canonical forms of the two configs at l differ, and only at paths
\* that ephemeral_paths lists.
OnlyEphemeralDelta(l) ==
    LET delta == DiffKeys(sub_dict(config(ItemAt(previous, l))),
                          sub_dict(config(ItemAt(current, l))))
    IN delta # {} /\ delta \subseteq Range(ephemeral_paths)

\* C9: an unsuppressed location in both lists whose only config difference
\* is at listed ephemeral paths is, when ephemerals are honored, in the
\* ephemeral bucket and not in the changed bucket, and otherwise in the
\* changed bucket.
C9_EphemeralOnlyDelta ==
    history \in {<<"find_modified">>, <<"find_changes">>} =>
        \A l \in Common :
            (~Suppressed(l) /\ OnlyEphemeralDelta(l)) =>
                IF honor_ephemerals
                THEN /\ l \in BucketLocations(ephemeral_items)
                     /\ l \notin BucketLocations(changed_items)
                ELSE l \in BucketLocations(changed_items)

\* With ephemerals honored and a path no config has listed before "e", a
\* location that changed at "e" only is in the ephemeral bucket alone.
C9_Witness ==
    /\ history = <<"find_modified">>
    /\ honor_ephemerals
    /\ ephemeral_paths = <<"x", "e">>
    /\ \E l \in Common :
          /\ ~Suppressed(l)
          /\ OnlyEphemeralDelta(l)
          /\ l \in BucketLocations(ephemeral_items)
    /\ changed_items = << >>

Disjoint == Locations(previous) \cap Locations(current) = {}

\* C10 as stated: for lists that share no location, after find_changes on
\* empty buckets created holds all locations of current, deleted all
\* locations of previous, and changed is empty.
C10_DisjointAllDeleted ==
    (history = <<"find_changes">> /\ Disjoint) =>
        /\ BucketLocations(created_items) = Locations(current)
        /\ BucketLocations(deleted_items) = Locations(previous)
        /\ changed_items = << >>

\* C10, amended: for lists that share no location, after find_changes on
\* empty buckets created holds all locations of current, deleted all
\* locations of previous that are not suppressed, and changed is empty.
C10_DisjointUnsuppressedDeleted ==
    (history = <<"find_changes">> /\ Disjoint) =>
        /\ BucketLocations(created_items) = Locations(current)
        /\ BucketLocations(deleted_items) = {l \in Locations(previous) : ~Suppressed(l)}
        /\ changed_items = << >>

\* One location went away under an account-level exception and another
\* appeared: the first is not in deleted, the second is in created.
C10_Witness ==
    /\ history = <<"find_changes">>
    /\ Disjoint
    /\ <<"t1", "a1">> \in DOMAIN exception_map
    /\ Cardinality(Locations(previous)) = 1
    /\ Len(created_items) = 1
    /\ deleted_items = << >>

\* The two lists have the same locations and, at each, configs with the
\* same canonical form.
EqualContent ==
    /\ Locations(previous) = Locations(current)
    /\ \A l \in Common :
          sub_dict(config(ItemAt(previous, l))) = sub_dict(config(ItemAt(current, l)))

\* C11: for lists with the same locations and the same canonical configs,
\* after find_changes on empty buckets all four buckets are empty, whatever
\* honor_ephemerals and ephemeral_paths are.
C11_EqualContentNoChange ==
    (history = <<"find_changes">> /\ EqualContent) =>
        /\ created_items = << >>
        /\ deleted_items = << >>
        /\ changed_items = << >>
        /\ ephemeral_items = << >>

\* Two unsuppressed locations whose configs differ in a volatile field
\* only, with ephemerals honored and "e" the ephemeral path.
C11_Witness ==
    /\ history = <<"find_changes">>
    /\ EqualContent
    /\ Cardinality(Common) = 2
    /\ \A l \in Common : config(ItemAt(previous, l)) # config(ItemAt(current, l))
    /\ exception_map = EmptyMap
    /\ honor_ephemerals
    /\ ephemeral_paths = <<"e">>
    /\ changed_items = << >>
    /\ ephemeral_items = << >>

\* Two bucket sets hold the same records, each as many times.
SameContents(b1, b2) ==
    \A name \in {"created", "deleted", "changed", "ephemeral"} :
        /\ Len(b1[name]) = Len(b2[name])
        /\ Range(b1[name]) = Range(b2[name])

\* C12: after find_changes has run twice on the same previous and current
\* lists, with the same exception map and configuration, the four buckets
\* hold what they held after the first run.
C12_SecondRunSameBuckets ==
    history = <<"find_changes", "find_changes">> =>
        SameContents(Buckets(Now), first_found)

\* The datastore.store call that passes a record's location, active flag,
\* new config and audit issues.
Persisted(rec) ==
    \E i \in DOMAIN stored :
        /\ <<stored[i].index, stored[i].account, stored[i].region, stored[i].name>>
              = <<rec.index, rec.account, rec.region, rec.name>>
        /\ stored[i].active = rec.active
        /\ stored[i].config = rec.new_config
        /\ stored[i].new_issues = rec.audit_issues

AllPersisted(bucket) == \A i \in DOMAIN bucket : Persisted(bucket[i])

\* C13 as stated: after save every record of the created, the deleted and
\* the changed bucket has been passed to the datastore's store, for both
\* values of honor_ephemerals.
C13_ChangedAlwaysStored ==
    phase = "saved" =>
        /\ AllPersisted(created_items)
        /\ AllPersisted(deleted_items)
        /\ AllPersisted(changed_items)

\* C13, amended: after save every record of the created and of the deleted
\* bucket has been passed to store; so has every record of the changed
\* bucket when ephemerals are not honored, and every record of the
\* ephemeral bucket (in place of the changed bucket) when they are.
C13_ChangedOrEphemeralStored ==
    phase = "saved" =>
        /\ AllPersisted(created_items)
        /\ AllPersisted(deleted_items)
        /\ ~honor_ephemerals => AllPersisted(changed_items)
        /\ honor_ephemerals => AllPersisted(ephemeral_items)

\* With ephemerals honored, one location went away and one changed at a
\* durable and at an ephemeral key: two store calls, none of them with the
\* changed bucket's filtered config.
C13_Witness ==
    /\ phase = "saved"
    /\ honor_ephemerals
    /\ ephemeral_paths = <<"e">>
    /\ Len(deleted_items) = 1
    /\ Len(changed_items) = 1
    /\ Len(ephemeral_items) = 1
    /\ Len(stored) = 2
    /\ ~Persisted(changed_items[1])

-----------------------------------------------------------------------------
(* Claims about issues_found.                                              *)

Scanned == created_items \o changed_items

\* The records that have audit issues.
WithIssues == {i \in DOMAIN Scanned : Scanned[i].audit_issues # << >>}

HasUnjustified(rec) ==
    \E j \in DOMAIN rec.confirmed_existing_issues :
        ~rec.confirmed_existing_issues[j].justified

\* The flags a scan of the whole list gives: it never stops early.
WholeListFlags ==
    [has_issues |-> WithIssues # {},
     has_new_issue |-> \E i \in WithIssues : Scanned[i].found_new_issue,
     has_unjustified_issue |->
         \E i \in WithIssues :
             Scanned[i].found_new_issue \/ HasUnjustified(Scanned[i])]

\* C14: for every list of created and changed records the three flags
\* issues_found returns, stopping at the first new issue, are those of a
\* scan of the whole list.
C14_EarlyStopSameFlags ==
    issue_flags.called => issue_flags.flags = WholeListFlags

\* The scan stopped at a first record with a new issue and left out a
\* second one that has an unjustified existing issue.
C14_Witness ==
    /\ issue_flags.called
    /\ Len(Scanned) = 2
    /\ Scanned[1].audit_issues # << >>
    /\ Scanned[1].found_new_issue
    /\ Scanned[2].audit_issues # << >>
    /\ ~Scanned[2].found_new_issue
    /\ HasUnjustified(Scanned[2])
    /\ issue_flags.flags.has_unjustified_issue

\* C15 as stated: a record with found_new_issue set makes issues_found
\* return has_new_issue and has_unjustified_issue, and a record with an
\* unjustified existing issue makes it return has_unjustified_issue.
C15_AnyRecordSetsFlags ==
    issue_flags.called =>
        /\ (\E i \in DOMAIN Scanned : Scanned[i].found_new_issue) =>
              /\ issue_flags.flags.has_new_issue
              /\ issue_flags.flags.has_unjustified_issue
        /\ (\E i \in DOMAIN Scanned : HasUnjustified(Scanned[i])) =>
              issue_flags.flags.has_unjustified_issue

\* C15, amended: a record that has audit issues and found_new_issue set
\* makes issues_found return has_new_issue and has_unjustified_issue, and
\* a record that has audit issues and an unjustified existing issue makes
\* it return has_unjustified_issue.
C15_RecordWithIssuesSetsFlags ==
    issue_flags.called =>
        /\ (\E i \in WithIssues : Scanned[i].found_new_issue) =>
              /\ issue_flags.flags.has_new_issue
              /\ issue_flags.flags.has_unjustified_issue
        /\ (\E i \in WithIssues : HasUnjustified(Scanned[i])) =>
              issue_flags.flags.has_unjustified_issue

\* A record with a justified and an unjustified existing issue comes
\* before the record with the new issue, one in each bucket.
C15_Witness ==
    /\ issue_flags.called
    /\ Len(created_items) = 1
    /\ Len(changed_items) = 1
    /\ created_items[1].audit_issues # << >>
    /\ ~created_items[1].found_new_issue
    /\ created_items[1].confirmed_existing_issues = <<Justified, Unjustified>>
    /\ changed_items[1].audit_issues # << >>
    /\ changed_items[1].found_new_issue
    /\ issue_flags.flags = [has_issues |-> TRUE, has_new_issue |-> TRUE,
                            has_unjustified_issue |-> TRUE]

-----------------------------------------------------------------------------
(* Claims about ChangeItem.from_items.                                     *)

\* C16: from_items yields no record when both items are absent; otherwise
\* the record is active iff there is a new item, its new_config is the new
\* item's config or empty, its old_config is the old item's config or
\* empty, and its location and audit_issues are the new item's when there
\* is one, else the old item's.  So every record in deleted is inactive
\* with an empty new_config, and every record in created or changed is
\* active.
C16_FromItemsRecord ==
    /\ made.called =>
          IF made.old_item = None /\ made.new_item = None
          THEN made.result = None
          ELSE /\ made.result # None
               /\ made.result.active = (made.new_item # None)
               /\ made.result.new_config =
                      (IF made.new_item # None THEN made.new_item.new_config
                       ELSE EmptyConfig)
               /\ made.result.old_config =
                      (IF made.old_item # None THEN made.old_item.new_config
                       ELSE EmptyConfig)
               /\ location(made.result) =
                      (IF made.new_item # None THEN location(made.new_item)
                       ELSE location(made.old_item))
               /\ made.result.audit_issues =
                      (IF made.new_item # None THEN made.new_item.audit_issues
                       ELSE made.old_item.audit_issues)
    /\ \A i \in DOMAIN deleted_items :
          ~deleted_items[i].active /\ deleted_items[i].new_config = EmptyConfig
    /\ \A i \in DOMAIN created_items : created_items[i].active
    /\ \A i \in DOMAIN changed_items : changed_items[i].active

\* Both items are there, at two locations and with different audit issues,
\* and the record takes after the new one.
C16_Witness ==
    /\ made.called
    /\ made.old_item # None
    /\ made.new_item # None
    /\ location(made.old_item) # location(made.new_item)
    /\ made.old_item.audit_issues # made.new_item.audit_issues
    /\ made.result.audit_issues = <<"issue1">>
    /\ made.result.old_config # made.result.new_config

-----------------------------------------------------------------------------
(* Claims about find_modified without and with honored ephemerals.         *)

\* The unsuppressed locations of both lists whose canonical configs differ.
Modified ==
    {l \in Common :
        /\ ~Suppressed(l)
        /\ sub_dict(config(ItemAt(previous, l))) # sub_dict(config(ItemAt(current, l)))}

\* C17: with honor_ephemerals unset, after find_modified on empty buckets
\* the changed bucket holds exactly one record for each unsuppressed
\* location of both lists whose canonical configs differ, with the previous
\* item's config as old_config and the current item's as new_config, and
\* the ephemeral bucket is empty whatever ephemeral_paths holds.
C17_UnsetAllInChanged ==
    (~honor_ephemerals /\ history \in {<<"find_modified">>, <<"find_changes">>}) =>
        /\ ephemeral_items = << >>
        /\ BucketLocations(changed_items) = Modified
        /\ Len(changed_items) = Cardinality(Modified)
        /\ \A i \in DOMAIN changed_items :
              /\ changed_items[i].old_config =
                     config(ItemAt(previous, location(changed_items[i])))
              /\ changed_items[i].new_config =
                     config(ItemAt(current, location(changed_items[i])))

\* Ephemerals are not honored, "e" is listed as ephemeral, and a location
\* that changed at "e" is in the changed bucket with "e" in its configs.
C17_Witness ==
    /\ ~honor_ephemerals
    /\ history = <<"find_modified">>
    /\ ephemeral_paths = <<"e">>
    /\ Len(changed_items) = 1
    /\ "e" \in DOMAIN changed_items[1].new_config
    /\ changed_items[1].old_config["e"] # changed_items[1].new_config["e"]
    /\ \E l \in Common : Suppressed(l)

\* C18: find_deleted, find_new and find_modified leave the previous and
\* the current items as they were given: also with ephemerals honored,
\* every input item's config still holds, at each ephemeral path, the value
\* it had, the paths being deleted from deep copies only.
C18_InputsUntouched ==
    history # << >> =>
        /\ previous = slurped_items.previous
        /\ current = slurped_items.current
        /\ \A given \in slurped_items.previous \cup slurped_items.current :
              \E item \in previous \cup current :
                  /\ location(item) = location(given)
                  /\ \A i \in DOMAIN ephemeral_paths :
                        ephemeral_paths[i] \in DOMAIN config(given) =>
                            /\ ephemeral_paths[i] \in DOMAIN config(item)
                            /\ config(item)[ephemeral_paths[i]] =
                                   config(given)[ephemeral_paths[i]]

\* With "e" honored as ephemeral a location changed at "k" and at "e": the
\* changed record has lost "e", the two input items have not.
C18_Witness ==
    /\ honor_ephemerals
    /\ ephemeral_paths = <<"e">>
    /\ history = <<"find_changes">>
    /\ Len(changed_items) = 1
    /\ "e" \notin DOMAIN changed_items[1].new_config
    /\ "e" \notin DOMAIN changed_items[1].old_config
    /\ \A item \in previous \cup current : "e" \in DOMAIN config(item)
    /\ \E l \in Common : config(ItemAt(previous, l))["e"] # config(ItemAt(current, l))["e"]

\* C19: with honor_ephemerals set, after find_modified every location with
\* a record in the changed bucket has a record in the ephemeral bucket too,
\* so that save, which stores the ephemeral bucket in place of the changed
\* one, stores every location with a durable change.
C19_DurableAlsoEphemeral ==
    (honor_ephemerals /\ history \in {<<"find_modified">>, <<"find_changes">>}) =>
        /\ BucketLocations(changed_items) \subseteq BucketLocations(ephemeral_items)
        /\ phase = "saved" =>
              \A i \in DOMAIN changed_items :
                  \E j \in DOMAIN stored :
                      /\ stored[j].index = changed_items[i].index
                      /\ stored[j].account = changed_items[i].account
                      /\ stored[j].region = changed_items[i].region
                      /\ stored[j].name = changed_items[i].name

\* Two locations changed, one at the durable "k" and one at the ephemeral
\* "e" only; both were stored.
C19_Witness ==
    /\ honor_ephemerals
    /\ ephemeral_paths = <<"e">>
    /\ phase = "saved"
    /\ Len(changed_items) = 1
    /\ Len(ephemeral_items) = 2
    /\ Len(stored) = 2

\* C20: after one find_changes on empty buckets no location is in more
\* than one of the created, deleted and changed buckets, and none is twice
\* in any of the four buckets.
C20_BucketsDisjointNoRepeats ==
    history = <<"find_changes">> =>
        /\ BucketLocations(created_items) \cap BucketLocations(deleted_items) = {}
        /\ BucketLocations(created_items) \cap BucketLocations(changed_items) = {}
        /\ BucketLocations(deleted_items) \cap BucketLocations(changed_items) = {}
        /\ Len(created_items) = Cardinality(BucketLocations(created_items))
        /\ Len(deleted_items) = Cardinality(BucketLocations(deleted_items))
        /\ Len(changed_items) = Cardinality(BucketLocations(changed_items))
        /\ Len(ephemeral_items) = Cardinality(BucketLocations(ephemeral_items))

\* One location was created and another one changed, non-empty buckets
\* that share nothing.
C20_Witness ==
    /\ history = <<"find_changes">>
    /\ Len(created_items) = 1
    /\ Len(changed_items) = 1
    /\ Len(ephemeral_items) = 1
    /\ deleted_items = << >>
    /\ location(created_items[1]) # location(changed_items[1])

-----------------------------------------------------------------------------
(* The delay of an invoker over its whole life.                            *)

\* C21: in every reachable state of an invoker, across any sequence of
\* calls and any mix of successes, throttling errors and other errors, the
\* delay is one of 0, 1, 2 and 4, and so never above the cap of 4.
C21_DelayWithinCap ==
    /\ rate_limit_delay \in {0, 1, 2, 4}
    /\ rate_limit_delay <= 4
    /\ \A i \in DOMAIN waits : waits[i] \in {0, 1, 2, 4}

\* An earlier call ended in another error and left the delay at 4; the
\* next call began with it, was throttled again, and the delay stayed at 4.
C21_Witness ==
    /\ calls >= 2
    /\ startDelay = 4
    /\ pc = "calling"
    /\ Len(waits) >= 2
    /\ IsThrottling(response)
    /\ attemptDelay = 4
    /\ rate_limit_delay = 4

=============================================================================
